---- MODULE Spec2Model ----
(***************************************************************************)
(* Model of text_to_texture_atlas::Font (Font.hpp / Font.cpp): the staged  *)
(* construction (library, face, size, character map, atlas), the packing   *)
(* loop of init_main_atlas_buffer, and the public operations               *)
(* get_character, free_character_buffers and free_atlas_buffer.            *)
(*                                                                         *)
(* The rasterizer (FreeType) and the blit primitive                        *)
(* (texture_operations::blit_texture) are external: their results are      *)
(* inputs, drawn from small sets.                                          *)
(***************************************************************************)
EXTENDS Integers, Sequences, FiniteSets, TLC

VARIABLES
    pc,             \* the statement the constructor is at; "done" once it returned
    error_,         \* Font::error_
    ft_error_,      \* Font::ft_error_, the last FreeType error code
    i,              \* loop variable of init_character_map
    glyph_index,    \* local of init_character_map: result of FT_Get_Char_Index
    bitmap,         \* face_->glyph->bitmap: buffer present or null, width, rows
    character_map_, \* Font::character_map_
    main_atlas_,    \* Font::main_atlas_
    x_position,     \* locals of init_main_atlas_buffer
    y_position,
    it,             \* position of the range-for of init_main_atlas_buffer
    blit_calls,     \* the calls made to texture_operations::blit_texture
    returned,       \* << c >> once get_character returned the record of c
    char_range_min, \* Font::char_range_min
    char_range_max, \* Font::char_range_max
    hash_order,     \* iteration order of std::unordered_map<char, character>
    build,          \* 1 for the first Font constructed, 2 for a second one
    first,          \* what the first Font held when its constructor returned
    bitmap_bytes,   \* the grayscale bytes bitmap.buffer points to
    four_channel_buffer  \* the vector convert_bitmap_to_four_channel_buffer fills

vars == << pc, error_, ft_error_, i, glyph_index, bitmap, character_map_,
           main_atlas_, x_position, y_position, it, blit_calls, returned,
           char_range_min, char_range_max, hash_order, build, first,
           bitmap_bytes, four_channel_buffer >>

\* what no member function of Font writes: the character range, the
\* library, the first Font, and the bitmap of the conversion taken alone
setting == << char_range_min, char_range_max, hash_order, build, first,
              bitmap_bytes, four_channel_buffer >>

\* the glyph slot of the face and the glyph index, written by
\* init_character_map only
glyph_slot == << glyph_index, bitmap >>

(***************************************************************************)
(* Character range.  Font.hpp initialises it to 32..126 and nothing        *)
(* assigns it; the model keeps the first codepoint (the space) and scales  *)
(* the length of the range.                                                *)
(***************************************************************************)
RangeLen == 3

CodePoints == char_range_min..char_range_max

\* isspace() of the "C" locale
IsSpace(c) == c \in {9, 10, 11, 12, 13, 32}

(***************************************************************************)
(* Rasterizer results.  A glyph bitmap is width x rows; FreeType renders   *)
(* bitmaps of at most 32767 pixels per side.                               *)
(***************************************************************************)
GlyphSizes == { <<2, 2>>, <<5, 3>>, <<6, 6>>, <<32767, 32767>> }

\* what FT_Load_Glyph / FT_Render_Glyph leave in face_->glyph for one codepoint
GlyphOutcomes(c) ==
    [ ft_error : {"load", "render"}, buffer : {FALSE}, width : {0}, rows : {0} ]
      \cup
    [ ft_error : {"none"}, buffer : {FALSE}, width : {0}, rows : {0} ]
      \cup
    { [ ft_error |-> "none", buffer |-> TRUE, width |-> s[1], rows |-> s[2] ]
        : s \in GlyphSizes }

\* what FT_Get_Char_Index returns: 0 for a character code the font does not
\* define (the index of the missing glyph), else the index of its glyph
GlyphIndexes == { 0, 1 }

\* FT_Bitmap of an empty glyph slot
NoBitmap == [ buffer |-> FALSE, width |-> 0, rows |-> 0 ]

\* characters the caller looks up after construction
LookupChars == { char_range_min + 1 }


(***************************************************************************)
(* Arithmetic.  unsigned int is 32 bits wide and size_t 64 bits.  TLC's    *)
(* integers are below 2^31, so a product that can pass 2^31 is kept as     *)
(* the pair hi * 2^30 + lo with 0 <= lo < 2^30.                            *)
(***************************************************************************)
Limb == 2^15

Half == 2^30

ToWide(n) == [ hi |-> n \div Half, lo |-> n % Half ]

\* the exact product of a and b, 0 <= a, b < 2^30
WideMul(a, b) ==
    LET a1 == a \div Limb
        a0 == a % Limb
        b1 == b \div Limb
        b0 == b % Limb
        cross == a1 * b0 + a0 * b1
        low == (cross % Limb) * Limb + a0 * b0
    IN  [ hi |-> a1 * b1 + (cross \div Limb) + (low \div Half),
          lo |-> low % Half ]

\* n * k computed in size_t, 0 <= k < 2^15
WideTimes(n, k) ==
    LET q == (n.lo \div Limb) * k
        low == (q % Limb) * Limb + (n.lo % Limb) * k
    IN  [ hi |-> n.hi * k + (q \div Limb) + (low \div Half), lo |-> low % Half ]

\* reduction of a value to unsigned int: modulo 2^32 = 4 * 2^30
WrapUInt(n) == [ hi |-> n.hi % 4, lo |-> n.lo ]

\* unsigned int product: a * b modulo 2^32
UIntMul(a, b) == WrapUInt(WideMul(a, b))

WideZero == ToWide(0)

\* std::ceil(sqrt(n)) for a non-negative int
CeilSqrt(n) == CHOOSE k \in 0..n : k * k >= n /\ \A j \in 0..(k - 1) : j * j < n

Max(a, b) == IF a >= b THEN a ELSE b

(***************************************************************************)
(* character and atlas                                                     *)
(***************************************************************************)
\* vector2{} and vector2f{}; a float is kept as the fraction it was
\* computed from
Vector2(x, y) == [ x |-> x, y |-> y ]

Float(n, d) == [ num |-> n, den |-> d ]

Vector2f(x, y) == [ x |-> x, y |-> y ]

ZeroVector2 == Vector2(0, 0)

ZeroVector2f == Vector2f(Float(0, 1), Float(0, 1))

\* variant: x is divided by the height and y by the width
get_normalized_swapped(v, max_width, max_height) ==
    Vector2f(Float(v.x, max_height), Float(v.y, max_width))

\* vector2::get_normalized
get_normalized(v, max_width, max_height) ==
    Vector2f(Float(v.x, max_width), Float(v.y, max_height))

\* std::vector<unsigned char>: its length, and what its bytes were filled
\* from ("zero": value-initialised; "glyph": the four-channel expansion of
\* the glyph bitmap of codepoint src)
EmptyVector == [ size |-> WideZero, fill |-> "zero", src |-> 0 ]

ZeroVector(n) == [ size |-> n, fill |-> "zero", src |-> 0 ]

\* character{}
DefaultCharacter ==
    [ width_ |-> 0, height_ |-> 0,
      x_bearing_ |-> 0, y_bearing_ |-> 0,
      advance_x_ |-> 0, advance_y_ |-> 0,
      top_left |-> ZeroVector2, top_right |-> ZeroVector2,
      bottom_left |-> ZeroVector2, bottom_right |-> ZeroVector2,
      tex_coords_top_left |-> ZeroVector2f,
      tex_coords_top_right |-> ZeroVector2f,
      tex_coords_bottom_left |-> ZeroVector2f,
      tex_coords_bottom_right |-> ZeroVector2f,
      raw_bitmap_buffer |-> EmptyVector ]

\* atlas{}
DefaultAtlas ==
    [ atlas_buffer |-> [ size |-> WideZero, blits |-> << >> ],
      width |-> 0, height |-> 0 ]

(***************************************************************************)
(* Iteration over character_map_.  The order of a std::unordered_map is    *)
(* left to the library, and is the same for every map the program fills    *)
(* the same way: with one key per bucket a list that appends new nodes     *)
(* yields the keys in insertion (ascending) order, one that prepends them  *)
(* (libstdc++) yields them in descending order.                            *)
(***************************************************************************)
HashOrders == { "ascending", "descending" }

RECURSIVE Ascending(_)
Ascending(S) ==
    IF S = {} THEN << >>
    ELSE LET m == CHOOSE k \in S : \A j \in S : k <= j
         IN  << m >> \o Ascending(S \ {m})

Reverse(s) == [ k \in 1..Len(s) |-> s[Len(s) + 1 - k] ]

\* variant: the order differs from one map instance to the next (a hash
\* seeded per instance)
IterationOrder_per_instance(map, order) ==
    IF (order = "ascending") = (build = 1) THEN Ascending(DOMAIN map)
    ELSE Reverse(Ascending(DOMAIN map))

\* the keys of the map in the order a range-for visits them
IterationOrder(map, order) ==
    IF order = "ascending" THEN Ascending(DOMAIN map)
    ELSE Reverse(Ascending(DOMAIN map))

(***************************************************************************)
(* The rasterizer and the blit primitive answer a second Font as they      *)
(* answered the first: same result for the same request.                   *)
(***************************************************************************)
SameStageResult(codes, e) ==
    IF build = 1 THEN TRUE
    ELSE IF first.ft_error_ \in codes THEN e = first.ft_error_ ELSE e = "none"

SameGlyph(c, g) ==
    IF build = 1 THEN TRUE
    ELSE IF c \in DOMAIN first.character_map_
         THEN /\ g.ft_error = "none"
              /\ g.buffer \/ IsSpace(c)
              /\ g.width = first.character_map_[c].width_
              /\ g.rows = first.character_map_[c].height_
         ELSE g.ft_error # "none" \/ (~g.buffer /\ ~IsSpace(c))

SameBlitStatus(call) ==
    IF build = 1 THEN TRUE
    ELSE \A k \in 1..Len(first.blit_calls) :
           [ first.blit_calls[k] EXCEPT !.er = call.er ] = call
             => first.blit_calls[k].er = call.er

(***************************************************************************)
(* Construction                                                            *)
(***************************************************************************)
InitFont ==
    /\ pc = "init_library"
    /\ error_ = FALSE
    /\ ft_error_ = "none"
    /\ i = char_range_min
    /\ glyph_index = 0
    /\ bitmap = NoBitmap
    /\ bitmap_bytes = << >>
    /\ four_channel_buffer = << >>
    /\ character_map_ = << >>
    /\ main_atlas_ = DefaultAtlas
    /\ x_position = 0
    /\ y_position = 0
    /\ it = 0
    /\ blit_calls = << >>
    /\ returned = << >>
    /\ hash_order \in HashOrders
    /\ build = 1
    /\ first = << >>

\* char_range_min{ 32 }, char_range_max{ 126 }
Init ==
    /\ char_range_min = 32
    /\ char_range_max = 32 + RangeLen
    /\ InitFont

\* variant: a failed stage sets error_ but the next stage runs all the same
Stage_runs_on(here, next, ft_error) ==
    /\ pc = here
    /\ ft_error_' = ft_error
    /\ pc' = next
    /\ error_' = (error_ \/ ft_error # "none")
    /\ UNCHANGED << i, character_map_, main_atlas_, x_position, y_position,
                    it, blit_calls, returned, glyph_slot, setting >>

\* a constructor stage that only reports success or failure: the stage runs
\* if (!error_), keeps the FreeType error code, and a failure sets error_,
\* after which no later stage runs and the constructor returns
Stage(here, next, ft_error) ==
    /\ pc = here
    /\ error_ = FALSE
    /\ ft_error_' = ft_error
    /\ IF ft_error = "none" THEN pc' = next /\ error_' = FALSE
                            ELSE pc' = "done" /\ error_' = TRUE
    /\ UNCHANGED << i, character_map_, main_atlas_, x_position, y_position,
                    it, blit_calls, returned, glyph_slot, setting >>

\* init_library: FT_Init_FreeType
init_library ==
    \E e \in { "none", "library" } :
      /\ SameStageResult({ "library" }, e)
      /\ Stage("init_library", "init_face", e)

\* init_face: FT_New_Face
init_face ==
    \E e \in { "none", "face" } :
      /\ SameStageResult({ "face" }, e)
      /\ Stage("init_face", "init_size", e)

\* init_char_size: FT_Set_Char_Size (the point-size constructor)
init_char_size ==
    \E e \in { "none", "char_size" } :
      /\ SameStageResult({ "char_size", "pixel_size" }, e)
      /\ Stage("init_size", "init_character_map", e)

\* init_pixel_size: FT_Set_Pixel_Sizes (the pixel-size constructor)
init_pixel_size ==
    \E e \in { "none", "pixel_size" } :
      /\ SameStageResult({ "char_size", "pixel_size" }, e)
      /\ Stage("init_size", "init_character_map", e)

\* flat_size: bitmap.rows * bitmap.width * 4 in unsigned int
flat_size(g) == WrapUInt(WideTimes(WideMul(g.rows, g.width), 4))

\* convert_bitmap_to_four_channel_buffer: fails without a source bitmap,
\* otherwise fills the vector from the glyph bitmap of codepoint c
convert_bitmap_to_four_channel_buffer(dst_vector, g, c) ==
    IF ~g.buffer THEN [ ok |-> FALSE, vector |-> dst_vector ]
    ELSE [ ok |-> TRUE, vector |-> [ dst_vector EXCEPT !.fill = "glyph", !.src = c ] ]

\* the record init_character_map stores for a rendered glyph
current_character(g, c) ==
    LET filled == [ DefaultCharacter EXCEPT
                      !.height_ = g.rows,
                      !.width_ = g.width,
                      !.x_bearing_ = 1,
                      !.y_bearing_ = g.rows,
                      !.advance_x_ = 64 * (g.width + 1),
                      !.advance_y_ = 0,
                      !.raw_bitmap_buffer = ZeroVector(flat_size(g)) ]
    IN  IF IsSpace(c) THEN filled
        ELSE [ filled EXCEPT !.raw_bitmap_buffer =
                 convert_bitmap_to_four_channel_buffer(@, g, c).vector ]

\* map[c] = value (operator[] followed by assignment)
MapPut(map, c, value) ==
    [ k \in (DOMAIN map) \cup {c} |-> IF k = c THEN value ELSE map[k] ]

\* variant: the result of FT_Render_Glyph is not checked
glyph_skipped_load_only(g, c) ==
    g.ft_error = "load" \/ (~g.buffer /\ ~IsSpace(c) /\ g.ft_error = "none")

\* variant: a glyph without bitmap is skipped even for whitespace
glyph_skipped_any_null(g, c) ==
    g.ft_error = "load" \/ g.ft_error = "render" \/ ~g.buffer

\* the three "continue" of the loop: glyph load failed, glyph render
\* failed, or no bitmap for a character that is not whitespace
glyph_skipped(g, c) ==
    g.ft_error = "load" \/ g.ft_error = "render" \/ (~g.buffer /\ ~IsSpace(c))

\* one iteration of the loop of init_character_map, for codepoint i
init_character_map ==
    /\ pc = "init_character_map"
    /\ i <= char_range_max
    /\ glyph_index' \in GlyphIndexes
    /\ \E g \in GlyphOutcomes(i) :
         /\ SameGlyph(i, g)
         /\ ft_error_' = g.ft_error
         /\ bitmap' = [ buffer |-> g.buffer, width |-> g.width, rows |-> g.rows ]
         /\ IF glyph_skipped(g, i)
            THEN \* continue
                 /\ i' = i + 1
                 /\ UNCHANGED << pc, error_, character_map_ >>
            ELSE IF ~IsSpace(i)
                    /\ ~convert_bitmap_to_four_channel_buffer(EmptyVector, g, i).ok
                 THEN \* return false; the constructor sets error_ and returns
                      /\ character_map_' = MapPut(character_map_, i, current_character(g, i))
                      /\ pc' = "done"
                      /\ error_' = TRUE
                      /\ UNCHANGED i
                 ELSE /\ character_map_' = MapPut(character_map_, i, current_character(g, i))
                      /\ i' = i + 1
                      /\ UNCHANGED << pc, error_ >>
    /\ UNCHANGED << main_atlas_, x_position, y_position, it, blit_calls,
                    returned, setting >>

\* the loop of init_character_map has ended: return true
init_character_map_return ==
    /\ pc = "init_character_map"
    /\ i > char_range_max
    /\ pc' = "init_main_atlas_buffer"
    /\ glyph_index' = 0
    /\ UNCHANGED << error_, ft_error_, i, bitmap, character_map_, main_atlas_,
                    x_position, y_position, it, blit_calls, returned, setting >>

\* the largest value of f, starting from unsigned int max_size{}
RECURSIVE MaxOver(_)
MaxOver(f) ==
    IF DOMAIN f = {} THEN 0
    ELSE LET k == CHOOSE e \in DOMAIN f : TRUE
         IN  Max(f[k], MaxOver([ j \in (DOMAIN f) \ {k} |-> f[j] ]))

\* variant: the scan for the widest glyph passes over whitespace records
get_max_character_width_no_space(map) ==
    MaxOver([ k \in { c \in DOMAIN map : ~IsSpace(c) } |-> map[k].width_ ])

\* get_max_character_width / get_max_character_height
get_max_character_width(map) == MaxOver([ k \in DOMAIN map |-> map[k].width_ ])

get_max_character_height(map) == MaxOver([ k \in DOMAIN map |-> map[k].height_ ])

width_spacing == 5

height_spacing == 5

initial_width_spacing == 5

initial_height_spacing == 5

character_channels == 4

characters_per_w_and_h == CeilSqrt(char_range_max - char_range_min)

\* variant: the atlas is one cell wider than cells_per_row cells
total_buffer_width_one_more_cell(map) ==
    (characters_per_w_and_h + 1) * get_max_character_width(map)
      + width_spacing * (characters_per_w_and_h + 1) + initial_width_spacing * 2

\* the unsigned int sums stay below 2^31 for every glyph FreeType renders
total_buffer_width(map) ==
    characters_per_w_and_h * get_max_character_width(map)
      + width_spacing * characters_per_w_and_h + initial_width_spacing * 2

total_buffer_height(map) ==
    characters_per_w_and_h * get_max_character_height(map)
      + height_spacing * characters_per_w_and_h + initial_height_spacing * 2

\* total_buffer_size: the product is taken in unsigned int, then widened
total_buffer_size(w, h) == UIntMul(w, h)

\* variant: the cursor advances by the cell width without the spacing
increment_x_size_no_spacing(map) == get_max_character_width(map)

increment_x_size(map) == get_max_character_width(map) + width_spacing

\* variant: a wrap does not move the cursor down
increment_y_size_none(map) == 0

increment_y_size(map) == get_max_character_height(map) + height_spacing

\* init_main_atlas_buffer up to the packing loop: the atlas is allocated
\* zero-filled, its width and height are set, the cursor is at the margin
init_main_atlas_buffer ==
    /\ pc = "init_main_atlas_buffer"
    /\ main_atlas_' =
         [ atlas_buffer |->
             [ size |-> WideTimes(total_buffer_size(total_buffer_width(character_map_),
                                                     total_buffer_height(character_map_)),
                                  character_channels),
               blits |-> << >> ],
           width |-> total_buffer_width(character_map_),
           height |-> total_buffer_height(character_map_) ]
    /\ x_position' = initial_width_spacing
    /\ y_position' = initial_height_spacing
    /\ it' = 1
    /\ pc' = "pack"
    /\ UNCHANGED << error_, ft_error_, i, character_map_, blit_calls,
                    returned, glyph_slot, setting >>

\* the statuses texture_operations::blit_texture can return for a call: a
\* destination-bounds violation is always rejected
blit_texture(x, y, w, h, dst_w, dst_h) ==
    IF x + w > dst_w \/ y + h > dst_h THEN { "DST_OUT_OF_BOUNDS" }
    ELSE { "SUCCESS", "FAILURE" }

\* variant: the right-hand corners are offset by the width in bytes (width * 4)
Placed_width_in_bytes(ch, x, y, w, h) ==
    LET tl == Vector2(x, y)
        tr == Vector2(x + ch.width_ * 4, y)
        bl == Vector2(x, y + ch.height_)
        br == Vector2(x + ch.width_ * 4, y + ch.height_)
    IN  [ ch EXCEPT
            !.top_left = tl, !.top_right = tr,
            !.bottom_left = bl, !.bottom_right = br,
            !.tex_coords_top_left = get_normalized(tl, w, h),
            !.tex_coords_top_right = get_normalized(tr, w, h),
            !.tex_coords_bottom_left = get_normalized(bl, w, h),
            !.tex_coords_bottom_right = get_normalized(br, w, h) ]

\* the placement and texture coordinates written after a successful blit
Placed(ch, x, y, w, h) ==
    LET tl == Vector2(x, y)
        tr == Vector2(x + ch.width_, y)
        bl == Vector2(x, y + ch.height_)
        br == Vector2(x + ch.width_, y + ch.height_)
    IN  [ ch EXCEPT
            !.top_left = tl, !.top_right = tr,
            !.bottom_left = bl, !.bottom_right = br,
            !.tex_coords_top_left = get_normalized(tl, w, h),
            !.tex_coords_top_right = get_normalized(tr, w, h),
            !.tex_coords_bottom_left = get_normalized(bl, w, h),
            !.tex_coords_bottom_right = get_normalized(br, w, h) ]

\* variant: the wrap test forgets the glyph's own width
Wraps_cursor_only(x, glyph_width, w) == x > w

\* whether the cursor wraps to the next row before the glyph
Wraps(x, glyph_width, w) == x + glyph_width > w

\* variant: the wrap resets y like x instead of moving down one row
wrapped_y_reset(y, map) == initial_height_spacing

\* variant: the wrap checks the vertical extent and stays on the row when a
\* cell of the next row would end past the atlas height
wrapped_y_checked(y, map) ==
    IF y + increment_y_size(map) + get_max_character_height(map) > total_buffer_height(map)
    THEN y
    ELSE y + increment_y_size(map)

\* y_position after a wrap
wrapped_y(y, map) == y + increment_y_size(map)

\* variant: the status of the blit is not looked at
blit_failed_never(er) == FALSE

\* er != texture_operations::SUCCESS
blit_failed(er) == er # "SUCCESS"

\* variant: the packing loop does not test for whitespace
std_isspace_never(c) == FALSE

\* std::isspace(a.first), the test that opens the packing loop
std_isspace(c) == IsSpace(c)

\* one iteration of the packing loop of init_main_atlas_buffer
pack ==
    /\ pc = "pack"
    /\ it <= Len(IterationOrder(character_map_, hash_order))
    /\ LET a == IterationOrder(character_map_, hash_order)[it]
           ch == character_map_[a]
           w == main_atlas_.width
           h == main_atlas_.height
           wrap == Wraps(x_position, ch.width_, w)
           x == IF wrap THEN initial_width_spacing ELSE x_position
           y == IF wrap THEN wrapped_y(y_position, character_map_)
                        ELSE y_position
       IN  IF std_isspace(a)
           THEN \* continue
                /\ it' = it + 1
                /\ UNCHANGED << pc, error_, character_map_, main_atlas_,
                                x_position, y_position, blit_calls >>
           ELSE \E er \in blit_texture(x, y, ch.width_, ch.height_, w, h) :
                  LET call == [ c |-> a, x |-> x, y |-> y,
                                w |-> ch.width_, h |-> ch.height_,
                                dst_w |-> w, dst_h |-> h, er |-> er ]
                  IN  /\ SameBlitStatus(call)
                      /\ blit_calls' = Append(blit_calls, call)
                      /\ x_position' = IF blit_failed(er) THEN x
                                       ELSE x + increment_x_size(character_map_)
                      /\ y_position' = y
                      /\ IF blit_failed(er)
                         THEN \* error_ = true; return false; the constructor returns
                              /\ error_' = TRUE
                              /\ pc' = "done"
                              /\ UNCHANGED << character_map_, main_atlas_, it >>
                         ELSE /\ main_atlas_' =
                                   [ main_atlas_ EXCEPT !.atlas_buffer.blits =
                                       Append(@, [ c |-> a, x |-> x, y |-> y,
                                                   w |-> ch.width_, h |-> ch.height_ ]) ]
                              /\ character_map_' =
                                   [ character_map_ EXCEPT ![a] = Placed(ch, x, y, w, h) ]
                              /\ it' = it + 1
                              /\ UNCHANGED << pc, error_ >>
    /\ UNCHANGED << ft_error_, i, returned, glyph_slot, setting >>

\* the packing loop has ended: init_main_atlas_buffer returns true and the
\* constructor returns
pack_return ==
    /\ pc = "pack"
    /\ it > Len(IterationOrder(character_map_, hash_order))
    /\ pc' = "done"
    /\ UNCHANGED << error_, ft_error_, i, character_map_, main_atlas_,
                    x_position, y_position, it, blit_calls, returned, glyph_slot, setting >>

(***************************************************************************)
(* Public operations, on a constructed Font                                *)
(***************************************************************************)
\* operator bool
operator_bool == ~error_

\* variant: a lookup that never inserts (find instead of operator[])
MapIndex_find(map, c) == map

\* map[c]: inserts character{} when c has no entry
MapIndex(map, c) == IF c \in DOMAIN map THEN map ELSE MapPut(map, c, DefaultCharacter)

\* get_character: return character_map_[character_]
get_character ==
    /\ pc = "done"
    /\ \E character_ \in LookupChars :
         /\ character_map_' = MapIndex(character_map_, character_)
         /\ returned' = << character_ >>
    /\ UNCHANGED << pc, error_, ft_error_, i, main_atlas_, x_position,
                    y_position, it, blit_calls, glyph_slot, setting >>

\* variant: a call releases the bitmap of one record only, the first that
\* still holds one
clear_raw_bitmap_buffers_one_per_call(map) ==
    LET held == { k \in DOMAIN map : map[k].raw_bitmap_buffer # EmptyVector }
    IN  IF held = {} THEN map
        ELSE [ map EXCEPT ![CHOOSE k \in held : \A j \in held : k <= j].raw_bitmap_buffer
                            = EmptyVector ]

\* val.raw_bitmap_buffer.clear() for every value of the map
clear_raw_bitmap_buffers(map) ==
    [ k \in DOMAIN map |-> [ map[k] EXCEPT !.raw_bitmap_buffer = EmptyVector ] ]

\* variant: releasing the buffer also resets the atlas width and height
clear_atlas_buffer_and_size(atlas) == DefaultAtlas

\* atlas_buffer.clear()
clear_atlas_buffer(atlas) ==
    [ atlas EXCEPT !.atlas_buffer = DefaultAtlas.atlas_buffer ]

\* free_character_buffers: raw_bitmap_buffer.clear() for every record
free_character_buffers ==
    /\ pc = "done"
    /\ character_map_' = clear_raw_bitmap_buffers(character_map_)
    /\ UNCHANGED << pc, error_, ft_error_, i, main_atlas_, x_position,
                    y_position, it, blit_calls, returned, glyph_slot, setting >>

\* free_atlas_buffer: atlas_buffer.clear()
free_atlas_buffer ==
    /\ pc = "done"
    /\ main_atlas_' = clear_atlas_buffer(main_atlas_)
    /\ UNCHANGED << pc, error_, ft_error_, i, character_map_, x_position,
                    y_position, it, blit_calls, returned, glyph_slot, setting >>

\* the constructor, Font::Font
Construct ==
    \/ init_library
    \/ init_face
    \/ init_char_size
    \/ init_pixel_size
    \/ init_character_map
    \/ init_character_map_return
    \/ init_main_atlas_buffer
    \/ pack
    \/ pack_return

Next ==
    \/ Construct
    \/ get_character
    \/ free_character_buffers
    \/ free_atlas_buffer

Spec == Init /\ [][Next]_vars

(***************************************************************************)
(* Two Fonts built one after the other by the same program, the            *)
(* rasterizer and the blit primitive answering both alike.                 *)
(***************************************************************************)
\* the second Font is constructed once the constructor of the first returned
construct_second ==
    /\ pc = "done"
    /\ build = 1
    /\ first' = [ character_map_ |-> character_map_, main_atlas_ |-> main_atlas_,
                  error_ |-> error_, ft_error_ |-> ft_error_,
                  blit_calls |-> blit_calls ]
    /\ build' = 2
    /\ pc' = "init_library"
    /\ error_' = FALSE
    /\ ft_error_' = "none"
    /\ i' = char_range_min
    /\ character_map_' = << >>
    /\ main_atlas_' = DefaultAtlas
    /\ x_position' = 0
    /\ y_position' = 0
    /\ it' = 0
    /\ blit_calls' = << >>
    /\ glyph_index' = 0
    /\ bitmap' = NoBitmap
    /\ UNCHANGED << returned, char_range_min, char_range_max, hash_order,
                    bitmap_bytes, four_channel_buffer >>

NextPair ==
    \/ Construct
    \/ construct_second

SpecPair == Init /\ [][NextPair]_vars

(***************************************************************************)
(* The construction for other values of the members char_range_min and     *)
(* char_range_max: ranges that start at a printable character, one of two  *)
(* codepoints and one of four.                                             *)
(***************************************************************************)
Ranges == { << 33, 34 >>, << 33, 36 >> }

InitRange ==
    /\ \E r \in Ranges : char_range_min = r[1] /\ char_range_max = r[2]
    /\ InitFont

NextRange == Construct

SpecRange == InitRange /\ [][NextRange]_vars

(***************************************************************************)
(* The conversion of one glyph bitmap, byte by byte: the part of           *)
(* init_character_map that allocates raw_bitmap_buffer and calls           *)
(* convert_bitmap_to_four_channel_buffer, for a bitmap whose grayscale     *)
(* bytes are known.                                                        *)
(***************************************************************************)
MaxSide == 2

\* grayscale coverage values: none, least, full
Bytes == { 0, 1, 255 }

\* std::vector<unsigned char>(n): n value-initialised bytes
ZeroBytes(n) == [ k \in 1..n |-> 0 ]

\* variant: the coverage is written to the first channel
four_channel_pixel_alpha_first(current) ==
    IF current = 0 THEN << 0, 0, 0, 0 >> ELSE << current, 0, 0, 0 >>

\* the four bytes the loop body writes at dst_flat .. dst_flat + 3
four_channel_pixel(current) ==
    IF current = 0 THEN << 0, 0, 0, 0 >> ELSE << 0, 0, 0, current >>

\* the loops of convert_bitmap_to_four_channel_buffer: every flat index
\* y * bitmap_width + x below bitmap_width * bitmap_height is visited once
convert_pixels(dst, src, bitmap_width, bitmap_height) ==
    [ n \in 1..Len(dst) |->
        LET flat == (n - 1) \div 4
        IN  IF flat < bitmap_width * bitmap_height
            THEN four_channel_pixel(src[flat + 1])[((n - 1) % 4) + 1]
            ELSE dst[n] ]

InitConvert ==
    /\ char_range_min = 32
    /\ char_range_max = 32 + RangeLen
    /\ pc = "convert"
    /\ error_ = FALSE
    /\ ft_error_ = "none"
    /\ i = char_range_min + 1
    /\ glyph_index = 1
    /\ \E w, r \in 1..MaxSide :
         /\ bitmap = [ buffer |-> TRUE, width |-> w, rows |-> r ]
         /\ bitmap_bytes \in [ 1..(w * r) -> Bytes ]
    /\ four_channel_buffer = << >>
    /\ character_map_ = << >>
    /\ main_atlas_ = DefaultAtlas
    /\ x_position = 0
    /\ y_position = 0
    /\ it = 0
    /\ blit_calls = << >>
    /\ returned = << >>
    /\ hash_order = "ascending"
    /\ build = 1
    /\ first = << >>

\* the record of codepoint i is stored, its vector allocated with flat_size
\* bytes and filled from the bitmap
convert ==
    /\ pc = "convert"
    /\ LET g == [ ft_error |-> "none", buffer |-> bitmap.buffer,
                  width |-> bitmap.width, rows |-> bitmap.rows ]
       IN  /\ character_map_' = MapPut(character_map_, i, current_character(g, i))
           /\ four_channel_buffer' =
                convert_pixels(ZeroBytes(flat_size(g).lo), bitmap_bytes,
                               bitmap.width, bitmap.rows)
    /\ pc' = "converted"
    /\ UNCHANGED << error_, ft_error_, i, glyph_slot, main_atlas_, x_position,
                    y_position, it, blit_calls, returned, char_range_min,
                    char_range_max, hash_order, build, first, bitmap_bytes >>

NextConvert == convert

SpecConvert == InitConvert /\ [][NextConvert]_vars

(***************************************************************************)
(* Properties                                                              *)
(***************************************************************************)
\* init_main_atlas_buffer has allocated the atlas
AtlasBuilt == pc \in { "pack", "done" } /\ it >= 1

\* the constructor returned and operator bool is true
BuildSucceeded == pc = "done" /\ ~error_

\* the largest element of a non-empty finite set of numbers
Largest(S) == CHOOSE m \in S : \A n \in S : n <= m

\* the characters blit_texture accepted, in call order
Blitted == { blit_calls[k].c : k \in { j \in 1..Len(blit_calls) : blit_calls[j].er = "SUCCESS" } }

Corners(ch) == { ch.top_left, ch.top_right, ch.bottom_left, ch.bottom_right }

RowMajorBefore(a, b) == a.y < b.y \/ (a.y = b.y /\ a.x < b.x)

\* C1: once the atlas is allocated, its width is cells_per_row * cell_w +
\* 5 * cells_per_row + 10 and its height cells_per_row * cell_h +
\* 5 * cells_per_row + 10, with cells_per_row = ceil(sqrt(max - min)) and
\* cell_w / cell_h the largest width / height over all records of the store
\* (whitespace records included, skipped codepoints having no record).
C1_AtlasDimensions ==
    AtlasBuilt =>
      LET range == char_range_max - char_range_min
          cell_w == Largest({ character_map_[k].width_ : k \in DOMAIN character_map_ } \cup {0})
          cell_h == Largest({ character_map_[k].height_ : k \in DOMAIN character_map_ } \cup {0})
      IN  \E cells_per_row \in 1..range :
            /\ cells_per_row * cells_per_row >= range
            /\ (cells_per_row - 1) * (cells_per_row - 1) < range
            /\ main_atlas_.width = cells_per_row * cell_w + 5 * cells_per_row + 10
            /\ main_atlas_.height = cells_per_row * cell_h + 5 * cells_per_row + 10

\* a finished build in which the whitespace record is the widest and tallest
\* of the store and a codepoint of the range was skipped
C1_Witness ==
    /\ BuildSucceeded
    /\ returned = << >>
    /\ char_range_min \in DOMAIN character_map_
    /\ DOMAIN character_map_ # CodePoints
    /\ Cardinality(DOMAIN character_map_) >= 3
    /\ \A k \in DOMAIN character_map_ \ { char_range_min } :
         /\ character_map_[k].width_ < character_map_[char_range_min].width_
         /\ character_map_[k].height_ < character_map_[char_range_min].height_

\* C2 as stated: after a successful build every placement corner of every
\* non-whitespace record satisfies 0 <= x < atlas width and
\* 0 <= y < atlas height, both upper bounds strict.
C2_CornersStrictlyInside ==
    BuildSucceeded =>
      \A k \in { c \in DOMAIN character_map_ : ~IsSpace(c) } :
        \A v \in Corners(character_map_[k]) :
          /\ 0 <= v.x /\ v.x < main_atlas_.width
          /\ 0 <= v.y /\ v.y < main_atlas_.height

\* C2 as amended: after a successful build every placement corner of every
\* non-whitespace record satisfies 0 <= x <= atlas width (a right-hand corner
\* may lie on the right edge) and 0 <= y < atlas height.
C2_CornersWithinAtlas ==
    BuildSucceeded =>
      \A k \in { c \in DOMAIN character_map_ : ~IsSpace(c) } :
        \A v \in Corners(character_map_[k]) :
          /\ 0 <= v.x /\ v.x <= main_atlas_.width
          /\ 0 <= v.y /\ v.y < main_atlas_.height

\* a successful build that blitted every non-whitespace codepoint of the
\* range, with a glyph whose right-hand corners lie on the right edge of
\* the atlas
C2_Witness ==
    /\ BuildSucceeded
    /\ Len(blit_calls) = RangeLen
    /\ \E k \in Blitted :
         /\ character_map_[k].top_right.x = main_atlas_.width
         /\ character_map_[k].bottom_right.x = main_atlas_.width

\* C3: every glyph handed to blit_texture satisfies x + width <= atlas width
\* and y + height <= atlas height, whatever the glyph sizes; so when the
\* primitive rejects nothing but destination-bounds violations the atlas
\* build succeeds.
C3_BlitsWithinAtlas ==
    /\ \A k \in 1..Len(blit_calls) :
         /\ blit_calls[k].dst_w = main_atlas_.width
         /\ blit_calls[k].dst_h = main_atlas_.height
         /\ blit_calls[k].x + blit_calls[k].w <= main_atlas_.width
         /\ blit_calls[k].y + blit_calls[k].h <= main_atlas_.height
    /\ (pc = "done" /\ it >= 1 /\ \A k \in 1..Len(blit_calls) : blit_calls[k].er # "FAILURE")
         => ~error_

\* a successful build that blitted every non-whitespace codepoint of the
\* range, wrapped to a second row, and holds glyphs of different widths
C3_Witness ==
    /\ BuildSucceeded
    /\ Len(blit_calls) = RangeLen
    /\ \E k \in 1..Len(blit_calls) : blit_calls[k].y > initial_height_spacing
    /\ \E j, k \in 1..Len(blit_calls) : blit_calls[j].w < blit_calls[k].w

\* C4 as stated: in a successful build, for two blitted codepoints c1 < c2
\* the cell of c1 precedes the cell of c2 in row-major order.
C4_AscendingRowMajor ==
    BuildSucceeded =>
      \A c1, c2 \in Blitted :
        c1 < c2 => RowMajorBefore(character_map_[c1].top_left, character_map_[c2].top_left)

\* C4 as amended: the packer visits the records in the iteration order of
\* the unordered store, which need not be ascending; of two glyphs the one
\* blitted earlier has the cell that comes first in row-major order.
C4_VisitOrderRowMajor ==
    \A j, k \in 1..Len(blit_calls) :
      (j < k /\ blit_calls[j].er = "SUCCESS" /\ blit_calls[k].er = "SUCCESS") =>
        RowMajorBefore(character_map_[blit_calls[j].c].top_left,
                       character_map_[blit_calls[k].c].top_left)

\* a successful build that visited a larger codepoint before a smaller one
\* and wrapped to a second row
C4_Witness ==
    /\ BuildSucceeded
    /\ Len(blit_calls) >= 3
    /\ blit_calls[1].c > blit_calls[2].c
    /\ \E k \in 1..Len(blit_calls) : blit_calls[k].y > initial_height_spacing

AtlasBytes == WideTimes(WideMul(main_atlas_.width, main_atlas_.height), 4)

\* C6: from the allocation of the atlas to the first call of
\* free_atlas_buffer the length of the atlas buffer is atlas width * atlas
\* height * 4, and before the first blit the buffer is all zero with width
\* and height set.
C6_BufferLength ==
    /\ [](pc = "pack" => main_atlas_.atlas_buffer.size = AtlasBytes)
    /\ []((pc = "pack" /\ blit_calls = << >>) =>
            /\ main_atlas_.atlas_buffer.blits = << >>
            /\ main_atlas_.width > 0
            /\ main_atlas_.height > 0)
    /\ [][(pc # "done" /\ pc' = "done") => (main_atlas_.atlas_buffer.size = AtlasBytes)']_vars
    /\ [][(pc = "done" /\ main_atlas_.atlas_buffer.size = AtlasBytes /\ ~free_atlas_buffer)
            => (main_atlas_.atlas_buffer.size = AtlasBytes)']_vars

\* a record that was given no placement: corners and texture coordinates zero
Unplaced(ch) ==
    /\ \A v \in Corners(ch) : v = [ x |-> 0, y |-> 0 ]
    /\ \A t \in { ch.tex_coords_top_left, ch.tex_coords_top_right,
                  ch.tex_coords_bottom_left, ch.tex_coords_bottom_right } :
         t.x.num = 0 /\ t.y.num = 0

\* C7: a blit that returns a status other than SUCCESS is the last blit of
\* the build: the constructor has returned with the failure flag set
\* (operator bool false), the failing glyph and every glyph not blitted
\* before it have neither placement nor texture coordinates.
C7_BlitFailureAborts ==
    \A k \in 1..Len(blit_calls) :
      blit_calls[k].er # "SUCCESS" =>
        /\ k = Len(blit_calls)
        /\ pc = "done"
        /\ error_
        /\ ~operator_bool
        /\ Unplaced(character_map_[blit_calls[k].c])
        /\ \A c \in DOMAIN character_map_ \ { blit_calls[j].c : j \in 1..(k - 1) } :
             Unplaced(character_map_[c])

\* a build whose second blit failed after a first one succeeded, with a
\* third glyph that was never visited
C7_Witness ==
    /\ pc = "done"
    /\ Len(blit_calls) = 2
    /\ blit_calls[1].er = "SUCCESS"
    /\ blit_calls[2].er = "FAILURE"
    /\ Cardinality({ c \in DOMAIN character_map_ : ~IsSpace(c) }) >= 3
    /\ ~Unplaced(character_map_[blit_calls[1].c])

\* the stage that follows each stage of the constructor
StageAfter ==
    [ init_library |-> "init_face",
      init_face |-> "init_size",
      init_size |-> "init_character_map",
      init_character_map |-> "init_main_atlas_buffer",
      init_main_atlas_buffer |-> "pack",
      pack |-> "done" ]

\* C8: the constructor runs library init, face load, size configuration,
\* character-map population and the atlas build in that order; a stage runs
\* only while no earlier stage has failed; when the constructor returns,
\* operator bool is true exactly when the last stage ran to its end; and
\* once error_ is set no operation clears it.
C8_StagedConstruction ==
    /\ [](pc # "done" => ~error_)
    /\ [][pc' # pc =>
            /\ pc # "done"
            /\ pc' = StageAfter[pc] \/ (pc' = "done" /\ error_')]_vars
    /\ [][(pc # "done" /\ pc' = "done") =>
            (~error_' <=> (pc = "pack" /\ it > Cardinality(DOMAIN character_map_)))]_vars
    /\ [][error_ => error_']_vars

\* a Font whose face load failed, on which get_character has since inserted
\* a record
C8_Witness ==
    /\ pc = "done"
    /\ error_
    /\ ft_error_ = "face"
    /\ returned # << >>
    /\ DOMAIN character_map_ # {}

\* C9: the step that processes a codepoint whose glyph load or glyph render
\* fails stores no record, leaves the failure flag clear and moves on to the
\* next codepoint; no other step of the constructor adds a record for a
\* codepoint; and the atlas is built only after the whole range was
\* processed.
C9_GlyphFailureSkips ==
    /\ [][(pc = "init_character_map" /\ i <= char_range_max
             /\ ft_error_' \in { "load", "render" }) =>
            /\ i \notin DOMAIN character_map_'
            /\ character_map_' = character_map_
            /\ i' = i + 1
            /\ pc' = "init_character_map"
            /\ ~error_']_vars
    /\ [][\A c \in CodePoints :
            (c \notin DOMAIN character_map_ /\ c \in DOMAIN character_map_') =>
              (pc = "done" \/ (pc = "init_character_map" /\ c = i /\ ft_error_' = "none"))]_vars
    /\ [](pc \in { "init_main_atlas_buffer", "pack" } => i = char_range_max + 1)

\* a successful build in which the render of the last codepoint failed and
\* an earlier codepoint was skipped while the one after it was recorded
C9_Witness ==
    /\ BuildSucceeded
    /\ returned = << >>
    /\ ft_error_ = "render"
    /\ char_range_max \notin DOMAIN character_map_
    /\ (char_range_min + 1) \notin DOMAIN character_map_
    /\ (char_range_min + 2) \in DOMAIN character_map_

\* C10: get_character(c) for a character without a record adds one record,
\* all of whose metrics, corners and texture coordinates are zero and whose
\* bitmap is empty; it changes no other record, nor the atlas, nor the
\* failure flag.  For a character with a record it changes nothing.
C10_GetCharacterFrame ==
    [][get_character =>
         LET c == returned'[1]
         IN  /\ main_atlas_' = main_atlas_
             /\ error_' = error_
             /\ IF c \in DOMAIN character_map_
                THEN character_map_' = character_map_
                ELSE /\ DOMAIN character_map_' = (DOMAIN character_map_) \cup {c}
                     /\ \A k \in DOMAIN character_map_ :
                          character_map_'[k] = character_map_[k]
                     /\ character_map_'[c].width_ = 0
                     /\ character_map_'[c].height_ = 0
                     /\ character_map_'[c].x_bearing_ = 0
                     /\ character_map_'[c].y_bearing_ = 0
                     /\ character_map_'[c].advance_x_ = 0
                     /\ character_map_'[c].advance_y_ = 0
                     /\ Unplaced(character_map_'[c])
                     /\ character_map_'[c].raw_bitmap_buffer.size = [ hi |-> 0, lo |-> 0 ]]_vars

\* a successfully built Font in which get_character has inserted a record
\* for a codepoint of the range that the build had skipped
C10_Witness ==
    /\ BuildSucceeded
    /\ Len(blit_calls) >= 2
    /\ returned = << char_range_min + 1 >>
    /\ (char_range_min + 1) \in DOMAIN character_map_
    /\ (char_range_min + 1) \notin Blitted
    /\ main_atlas_.atlas_buffer.size # [ hi |-> 0, lo |-> 0 ]

\* C11: a whitespace codepoint that rasterizes without error is recorded in
\* the store, is never passed to blit_texture, leaves the packing cursor and
\* the atlas where they were when the packing loop visits it, and its four
\* corners and four texture coordinates are zero.
C11_WhitespaceNotPacked ==
    /\ [](\A k \in 1..Len(blit_calls) : ~IsSpace(blit_calls[k].c))
    /\ [](\A c \in DOMAIN character_map_ : IsSpace(c) => Unplaced(character_map_[c]))
    /\ [][(pc = "init_character_map" /\ i <= char_range_max /\ IsSpace(i)
             /\ ft_error_' = "none") => i \in DOMAIN character_map_']_vars
    /\ [][(/\ pc = "pack"
           /\ it <= Len(IterationOrder(character_map_, hash_order))
           /\ IsSpace(IterationOrder(character_map_, hash_order)[it])) =>
            /\ x_position' = x_position
            /\ y_position' = y_position
            /\ blit_calls' = blit_calls
            /\ main_atlas_' = main_atlas_
            /\ character_map_' = character_map_]_vars

\* a successful build that holds a whitespace record with a bitmap of its
\* own and blitted at least two other glyphs
C11_Witness ==
    /\ BuildSucceeded
    /\ returned = << >>
    /\ Len(blit_calls) >= 2
    /\ \E c \in DOMAIN character_map_ :
         /\ IsSpace(c)
         /\ character_map_[c].width_ > 0
         /\ character_map_[c].raw_bitmap_buffer.size # [ hi |-> 0, lo |-> 0 ]

\* every record's bitmap is empty
AllBitmapsEmpty ==
    \A c \in DOMAIN character_map_ :
      character_map_[c].raw_bitmap_buffer.size = [ hi |-> 0, lo |-> 0 ]

\* the atlas buffer is empty
AtlasBufferEmpty ==
    /\ main_atlas_.atlas_buffer.size = [ hi |-> 0, lo |-> 0 ]
    /\ main_atlas_.atlas_buffer.blits = << >>

\* the store and the atlas after free_character_buffers / free_atlas_buffer
\* were called on a Font that holds the store and atlas s
AfterFreeCharacterBuffers(s) ==
    [ s EXCEPT !.character_map_ = clear_raw_bitmap_buffers(s.character_map_) ]

AfterFreeAtlasBuffer(s) ==
    [ s EXCEPT !.main_atlas_ = clear_atlas_buffer(s.main_atlas_) ]

\* C12: free_character_buffers and free_atlas_buffer are idempotent and
\* commute: a call leaves every bitmap (the atlas buffer) empty, a second
\* call changes nothing, and the two calls in either order give the same
\* store and atlas, with every bitmap and the atlas buffer empty.
C12_ReleaseIdempotentCommute ==
    /\ [][free_character_buffers =>
            (AllBitmapsEmpty' /\ (AllBitmapsEmpty => character_map_' = character_map_))]_vars
    /\ [][free_atlas_buffer =>
            (AtlasBufferEmpty' /\ (AtlasBufferEmpty => main_atlas_' = main_atlas_))]_vars
    /\ [](pc = "done" =>
            LET s == [ character_map_ |-> character_map_, main_atlas_ |-> main_atlas_ ]
                both == AfterFreeAtlasBuffer(AfterFreeCharacterBuffers(s))
            IN  /\ AfterFreeCharacterBuffers(AfterFreeCharacterBuffers(s))
                     = AfterFreeCharacterBuffers(s)
                /\ AfterFreeAtlasBuffer(AfterFreeAtlasBuffer(s)) = AfterFreeAtlasBuffer(s)
                /\ AfterFreeCharacterBuffers(AfterFreeAtlasBuffer(s)) = both
                /\ \A c \in DOMAIN both.character_map_ :
                     both.character_map_[c].raw_bitmap_buffer.size = [ hi |-> 0, lo |-> 0 ]
                /\ both.main_atlas_.atlas_buffer.size = [ hi |-> 0, lo |-> 0 ])

\* a successfully built Font, with blitted glyphs, on which both releases
\* were called
C12_Witness ==
    /\ BuildSucceeded
    /\ Len(blit_calls) >= 2
    /\ main_atlas_.width > 0
    /\ AllBitmapsEmpty
    /\ AtlasBufferEmpty

\* C13: free_character_buffers changes nothing but the records' bitmaps:
\* the set of records, every other field of every record, the atlas and
\* error_ are as before.  free_atlas_buffer changes nothing but the atlas
\* buffer: the atlas width and height, every record and error_ are as
\* before.
C13_ReleaseFrame ==
    /\ [][free_character_buffers =>
            /\ DOMAIN character_map_' = DOMAIN character_map_
            /\ \A c \in DOMAIN character_map_ :
                 [ character_map_'[c] EXCEPT !.raw_bitmap_buffer =
                     character_map_[c].raw_bitmap_buffer ] = character_map_[c]
            /\ main_atlas_' = main_atlas_
            /\ error_' = error_]_vars
    /\ [][free_atlas_buffer =>
            /\ main_atlas_'.width = main_atlas_.width
            /\ main_atlas_'.height = main_atlas_.height
            /\ character_map_' = character_map_
            /\ error_' = error_]_vars

\* a successfully built Font whose bitmaps and atlas buffer were released
\* while a record keeps its placement and the atlas its width and height
C13_Witness ==
    /\ BuildSucceeded
    /\ AllBitmapsEmpty
    /\ AtlasBufferEmpty
    /\ main_atlas_.width > 0
    /\ main_atlas_.height > 0
    /\ \E c \in DOMAIN character_map_ :
         character_map_[c].width_ > 0 /\ ~Unplaced(character_map_[c])

\* the float f equals n / d and lies in [0, 1]
IsQuotient(f, n, d) ==
    /\ f.den > 0
    /\ 0 <= f.num
    /\ f.num <= f.den
    /\ IF d = 0 THEN f.num = 0 /\ n = 0
       ELSE WideMul(f.num, d) = WideMul(n, f.den)

\* the texture coordinate t is the corner v divided by the atlas size
IsNormalized(t, v) ==
    /\ IsQuotient(t.x, v.x, main_atlas_.width)
    /\ IsQuotient(t.y, v.y, main_atlas_.height)

\* C14: after a successful build, each of the four texture coordinates of
\* every record is its corner divided componentwise by the final atlas
\* width and height, and both of its components lie in [0, 1].
C14_TexCoordsNormalized ==
    BuildSucceeded =>
      \A c \in DOMAIN character_map_ :
        /\ IsNormalized(character_map_[c].tex_coords_top_left, character_map_[c].top_left)
        /\ IsNormalized(character_map_[c].tex_coords_top_right, character_map_[c].top_right)
        /\ IsNormalized(character_map_[c].tex_coords_bottom_left,
                        character_map_[c].bottom_left)
        /\ IsNormalized(character_map_[c].tex_coords_bottom_right,
                        character_map_[c].bottom_right)

\* a successful build of an atlas that is not square, holding a whitespace
\* record and a glyph whose right-hand texture coordinate is exactly 1
C14_Witness ==
    /\ BuildSucceeded
    /\ main_atlas_.width # main_atlas_.height
    /\ \E c \in DOMAIN character_map_ : IsSpace(c)
    /\ \E c \in DOMAIN character_map_ :
         /\ character_map_[c].top_right.x = main_atlas_.width
         /\ character_map_[c].tex_coords_top_right.x.num
              = character_map_[c].tex_coords_top_right.x.den
         /\ character_map_[c].tex_coords_bottom_right.y.num > 0

\* the cell: the largest width and height over all records of the store
CellWidth == Largest({ character_map_[c].width_ : c \in DOMAIN character_map_ } \cup {0})

CellHeight == Largest({ character_map_[c].height_ : c \in DOMAIN character_map_ } \cup {0})

\* the store holds four records, none of them whitespace, all of 2 x 2 pixels
FourGlyphsOfTwoByTwo ==
    /\ Cardinality(DOMAIN character_map_) = 4
    /\ \A c \in DOMAIN character_map_ :
         ~IsSpace(c) /\ character_map_[c].width_ = 2 /\ character_map_[c].height_ = 2

\* C15: the packing cursor starts at (5, 5); a glyph handed to blit_texture
\* is placed at the cursor, after the cursor wrapped to x = 5 and y + cell_h
\* + 5 exactly when x + the glyph's width > atlas width; its corners are
\* the cursor plus its own width and height; after it the cursor has
\* advanced by cell_w + 5.  With four non-whitespace records of 2 x 2 pixels
\* the atlas is 24 x 24, the first glyph is at (5, 5) and the second at
\* (12, 5).
C15_CursorWalk ==
    /\ []((pc = "pack" /\ blit_calls = << >>) => (x_position = 5 /\ y_position = 5))
    /\ [][(pc = "pack" /\ Len(blit_calls') = Len(blit_calls) + 1) =>
            LET call == blit_calls'[Len(blit_calls')]
                wrap == x_position + character_map_[call.c].width_ > main_atlas_.width
                x == IF wrap THEN 5 ELSE x_position
                y == IF wrap THEN y_position + CellHeight + 5 ELSE y_position
                ch == character_map_'[call.c]
            IN  /\ call.x = x
                /\ call.y = y
                /\ call.w = character_map_[call.c].width_
                /\ call.h = character_map_[call.c].height_
                /\ call.er = "SUCCESS" =>
                     /\ ch.top_left = [ x |-> x, y |-> y ]
                     /\ ch.top_right = [ x |-> x + call.w, y |-> y ]
                     /\ ch.bottom_left = [ x |-> x, y |-> y + call.h ]
                     /\ ch.bottom_right = [ x |-> x + call.w, y |-> y + call.h ]
                     /\ x_position' = x + CellWidth + 5
                     /\ y_position' = y]_vars
    /\ []((AtlasBuilt /\ FourGlyphsOfTwoByTwo) =>
            /\ main_atlas_.width = 24
            /\ main_atlas_.height = 24
            /\ Len(blit_calls) >= 1 => (blit_calls[1].x = 5 /\ blit_calls[1].y = 5)
            /\ Len(blit_calls) >= 2 => (blit_calls[2].x = 12 /\ blit_calls[2].y = 5))

\* the build of four 2 x 2 glyphs has succeeded, the fourth glyph having
\* wrapped to the second row
C15_Witness ==
    /\ BuildSucceeded
    /\ FourGlyphsOfTwoByTwo
    /\ Len(blit_calls) = 4
    /\ blit_calls[2].x = 12
    /\ blit_calls[4].x = 5
    /\ blit_calls[4].y = 12

\* C16: the step that processes a codepoint for which FT_Get_Char_Index
\* finds no glyph (index 0) stores no record for it, leaves error_ clear and
\* moves on to the next codepoint.
C16_MissingGlyphOmitted ==
    [][(pc = "init_character_map" /\ i <= char_range_max /\ glyph_index' = 0) =>
         /\ i \notin DOMAIN character_map_'
         /\ i' = i + 1
         /\ pc' = "init_character_map"
         /\ ~error_']_vars

\* C17: the step that processes a codepoint whose glyph is loaded and
\* rendered without error but has no bitmap stores no record when the
\* codepoint is not whitespace and stores one when it is whitespace; either
\* way error_ stays clear and the loop moves on to the next codepoint.  Only
\* codepoints with a record are handed to blit_texture.
C17_EmptyBitmapSkipped ==
    /\ [][(/\ pc = "init_character_map"
           /\ i <= char_range_max
           /\ ft_error_' = "none"
           /\ ~bitmap'.buffer) =>
            /\ IF IsSpace(i) THEN i \in DOMAIN character_map_'
               ELSE i \notin DOMAIN character_map_' /\ character_map_' = character_map_
            /\ i' = i + 1
            /\ pc' = "init_character_map"
            /\ ~error_']_vars
    /\ [](\A k \in 1..Len(blit_calls) : blit_calls[k].c \in DOMAIN character_map_)

\* a successful build in which the space was kept with an empty bitmap, the
\* last codepoint was dropped for its empty bitmap, and the two codepoints
\* in between were blitted
C17_Witness ==
    /\ BuildSucceeded
    /\ returned = << >>
    /\ ft_error_ = "none"
    /\ ~bitmap.buffer
    /\ char_range_max \notin DOMAIN character_map_
    /\ char_range_min \in DOMAIN character_map_
    /\ IsSpace(char_range_min)
    /\ character_map_[char_range_min].width_ = 0
    /\ Len(blit_calls) = 2

\* C18: the packer does not look at the vertical extent and never changes
\* the atlas size: a glyph whose cursor position gives y + height > atlas
\* height is handed to blit_texture all the same; blit_texture, which checks
\* the destination bounds, rejects it, and the constructor returns with
\* error_ set and the atlas width and height as allocated.
C18_VerticalOverflow ==
    /\ [][(pc = "pack" /\ it <= Len(IterationOrder(character_map_, hash_order))) =>
            LET a == IterationOrder(character_map_, hash_order)[it]
                wrap == x_position + character_map_[a].width_ > main_atlas_.width
                y == IF wrap THEN y_position + CellHeight + 5 ELSE y_position
            IN  (~IsSpace(a) /\ y + character_map_[a].height_ > main_atlas_.height) =>
                  /\ Len(blit_calls') = Len(blit_calls) + 1
                  /\ blit_calls'[Len(blit_calls')].c = a
                  /\ blit_calls'[Len(blit_calls')].y = y
                  /\ blit_calls'[Len(blit_calls')].h = character_map_[a].height_
                  /\ blit_calls'[Len(blit_calls')].dst_h = main_atlas_.height]_vars
    /\ [](\A k \in 1..Len(blit_calls) :
            blit_calls[k].y + blit_calls[k].h > blit_calls[k].dst_h =>
              /\ blit_calls[k].er # "SUCCESS"
              /\ k = Len(blit_calls)
              /\ pc = "done"
              /\ error_
              /\ main_atlas_.width = blit_calls[k].dst_w
              /\ main_atlas_.height = blit_calls[k].dst_h)
    /\ [][AtlasBuilt =>
            /\ main_atlas_'.width = main_atlas_.width
            /\ main_atlas_'.height = main_atlas_.height]_vars

\* a range of two codepoints (max - min = 1, one cell per row) with glyphs
\* wider and taller than 5: the second glyph wrapped to a row that ends
\* past the atlas height, was rejected, and the build failed
C18_Witness ==
    /\ char_range_max - char_range_min = 1
    /\ pc = "done"
    /\ error_
    /\ Len(blit_calls) = 2
    /\ blit_calls[1].er = "SUCCESS"
    /\ blit_calls[2].w > 5
    /\ blit_calls[2].h > 5
    /\ blit_calls[2].x = 5
    /\ blit_calls[2].y + blit_calls[2].h > main_atlas_.height
    /\ blit_calls[2].er = "DST_OUT_OF_BOUNDS"

\* C19: the bitmap of a non-whitespace record that was not released has
\* width * height * 4 bytes, and for every pixel of the grayscale source
\* the four bytes written are (0, 0, 0, source byte): red, green and blue
\* are zero and alpha is the source byte, 0 for a source byte of 0.
C19_FourChannelExpansion ==
    /\ \A c \in DOMAIN character_map_ :
         (~IsSpace(c) /\ character_map_[c].raw_bitmap_buffer.fill = "glyph") =>
           character_map_[c].raw_bitmap_buffer.size
             = WideTimes(WideMul(character_map_[c].width_, character_map_[c].height_), 4)
    /\ pc = "converted" =>
         /\ character_map_[i].width_ = bitmap.width
         /\ character_map_[i].height_ = bitmap.rows
         /\ character_map_[i].raw_bitmap_buffer.fill = "glyph"
         /\ character_map_[i].raw_bitmap_buffer.size = ToWide(Len(four_channel_buffer))
         /\ Len(four_channel_buffer) = bitmap.width * bitmap.rows * 4
         /\ \A k \in 1..(bitmap.width * bitmap.rows) :
              /\ four_channel_buffer[4 * k - 3] = 0
              /\ four_channel_buffer[4 * k - 2] = 0
              /\ four_channel_buffer[4 * k - 1] = 0
              /\ four_channel_buffer[4 * k] = bitmap_bytes[k]

\* a converted 2 x 2 bitmap that holds a pixel of no coverage and a pixel of
\* full coverage
C19_Witness ==
    /\ pc = "converted"
    /\ bitmap.width = 2
    /\ bitmap.rows = 2
    /\ Len(four_channel_buffer) = 16
    /\ bitmap_bytes[1] = 0
    /\ four_channel_buffer[4] = 0
    /\ bitmap_bytes[4] = 255
    /\ four_channel_buffer[16] = 255

\* the pixel rectangles of the records a and b have a pixel in common
Overlap(a, b) ==
    /\ a.top_left.x < b.top_left.x + b.width_
    /\ b.top_left.x < a.top_left.x + a.width_
    /\ a.top_left.y < b.top_left.y + b.height_
    /\ b.top_left.y < a.top_left.y + a.height_

\* C20: after a successful build the pixel rectangles [x, x + width) x
\* [y, y + height) of two distinct non-whitespace records have no pixel in
\* common, whatever the glyph sizes.
C20_NoOverlap ==
    BuildSucceeded =>
      \A c1, c2 \in DOMAIN character_map_ :
        (c1 # c2 /\ ~IsSpace(c1) /\ ~IsSpace(c2)) =>
          ~Overlap(character_map_[c1], character_map_[c2])

\* a successful build that blitted every codepoint but the space, wrapped
\* to a second row and holds a glyph narrower and lower than the cell
C20_Witness ==
    /\ BuildSucceeded
    /\ returned = << >>
    /\ Len(blit_calls) = char_range_max - char_range_min
    /\ Len(blit_calls) >= 3
    /\ \E k \in 1..Len(blit_calls) : blit_calls[k].y > 5
    /\ \E c \in DOMAIN character_map_ :
         /\ ~IsSpace(c)
         /\ character_map_[c].width_ < CellWidth
         /\ character_map_[c].height_ < CellHeight

\* the glyphs placed on the row whose top is y
Row(y) == { c \in Blitted : character_map_[c].top_left.y = y }

\* cells_per_row = ceil(sqrt(max - min))
CellsPerRow == CeilSqrt(char_range_max - char_range_min)

\* C21 as stated: no row of the atlas holds more than cells_per_row glyphs,
\* for every combination of glyph sizes.
C21_AtMostCellsPerRow ==
    \A c \in Blitted : Cardinality(Row(character_map_[c].top_left.y)) <= CellsPerRow

\* C21 as the packer behaves: every placed glyph starts on a column of the
\* grid, x = 5 + k * (cell_w + 5) with 0 <= k <= cells_per_row; the column
\* k = cells_per_row lies in the right margin and only takes a glyph of
\* width 5 or less; so a row holds at most cells_per_row + 1 glyphs.
C21_GridWithMarginColumn ==
    \A c \in Blitted :
      /\ \E k \in 0..CellsPerRow :
           /\ character_map_[c].top_left.x = 5 + k * (CellWidth + 5)
           /\ k = CellsPerRow => character_map_[c].width_ <= 5
      /\ Cardinality(Row(character_map_[c].top_left.y)) <= CellsPerRow + 1

\* a successful build whose first row holds cells_per_row + 1 glyphs, the
\* last of them in the right margin
C21_Witness ==
    /\ BuildSucceeded
    /\ returned = << >>
    /\ Cardinality(Row(5)) = CellsPerRow + 1
    /\ \E c \in Row(5) :
         /\ character_map_[c].top_left.x = main_atlas_.width - 5
         /\ character_map_[c].width_ <= 5

\* C22: whatever width and height the layout gives the atlas, the buffer
\* allocated for it has width * height * 4 bytes, the product taken over
\* the natural numbers: also when width * height is 2^32 or more.
C22_PixelCountNotWrapped ==
    (pc = "pack" /\ blit_calls = << >>) =>
      LET pixels == WideMul(main_atlas_.width, main_atlas_.height)
      IN  /\ main_atlas_.atlas_buffer.size = WideTimes(pixels, 4)
          /\ pixels.hi >= 4 => main_atlas_.atlas_buffer.size.hi >= 16

====
